---------------------------- MODULE Spec2Model ----------------------------
(***************************************************************************)
(* A model of tge_volume (runa-tic/15min-vol): the exchange history        *)
(* collector of exchanges.py (_prepare_exchange_market,                    *)
(* _collect_full_ohlcv, fetch_exchange_stats, fetch_trading_flow) and the  *)
(* per-exchange loop of cli.main.                                          *)
(*                                                                         *)
(* Time is counted in small integer units.  A candle is the 6-tuple        *)
(* <<open time, open, high, low, close, volume>> of ccxt.  Python's None   *)
(* is the integer None below (prices, volumes and times are never          *)
(* negative); "truthy" is Python's truth test on such a value.             *)
(***************************************************************************)
EXTENDS Integers, Sequences, FiniteSets, TLC

(***************************************************************************)
(* Bounds of the model.                                                    *)
(***************************************************************************)
\* timeframe_ms of the "15m" timeframe, in model time units
timeframe_ms == 2
\* the page limit returned by _prepare_exchange_market (OHLCVLimit or 500)
limit == 2
\* day_timeframe_ms, the "1d" timeframe in model time units
day_timeframe_ms == 8
\* candle open times of an exchange history lie in 0..MaxT; now is MaxT
MaxT == 10
\* an exchange history of the paging family holds at most MaxHist candles
MaxHist == 3
\* backward probes the model follows (the code has no cap)
MaxProbes == 5
\* against a connector that answers anything, the forward walk is followed
\* while all_candles holds at most MaxAll candles
MaxAll == 4
\* the daily page the connector returns holds at most MaxDayLen candles
MaxDayLen == 3
\* cli.main is followed over at most MaxMarkets markets
MaxMarkets == 2
\* build_markets is given at most MaxTickers tickers
MaxTickers == 3
\* an exchange of the resolution family exposes at most MaxExMarkets markets
MaxExMarkets == 3

None == -1

Truthy(x) == x # None /\ x # 0

Min(S) == CHOOSE x \in S : \A y \in S : x <= y

Max(S) == CHOOSE x \in S : \A y \in S : x >= y

RECURSIVE GCD(_, _)
GCD(a, b) == IF b = 0 THEN a ELSE GCD(b, a % b)

\* the smallest n elements of a set of integers, ascending
RECURSIVE FirstN(_, _)
FirstN(S, n) ==
    IF n = 0 \/ S = {} THEN <<>>
    ELSE LET m == Min(S) IN <<m>> \o FirstN(S \ {m}, n - 1)

Reverse(s) == [i \in 1..Len(s) |-> s[Len(s) + 1 - i]]

\* all sequences over S of length at most n
SeqsUpTo(S, n) == UNION {[1..k -> S] : k \in 0..n}

(***************************************************************************)
(* Candles.  Profiles are the price/volume rows candles are drawn from:    *)
(* prices are scaled by 10 (open 1.0, close 1.2 is open 10, close 12).     *)
(***************************************************************************)
Profiles == <<
    [open |-> 10, high |-> 14, low |-> 9, close |-> 12, vol |-> 100],
    [open |-> 0, high |-> 7, low |-> 3, close |-> 0, vol |-> 5],
    [open |-> 2, high |-> None, low |-> None, close |-> None, vol |-> 0],
    [open |-> None, high |-> 0, low |-> None, close |-> 0, vol |-> 5] >>

Candle(ts, k) ==
    <<ts, Profiles[k].open, Profiles[k].high, Profiles[k].low,
      Profiles[k].close, Profiles[k].vol>>

VARIABLES
    \* the call: which function runs, and its arguments
    entry, base, quote, expected_tge_ts,
    \* the exchange behind the connector
    exMarkets, loadFails, hist, shift, mode, dayBook,
    \* fetch_exchange_stats / fetch_trading_flow / _collect_full_ohlcv
    pc, symbol, probe_since, earliest_batch, candles, all_candles,
    next_since, last_first_ts, series, first_15m_volume, day, day_candle,
    result, error,
    \* every fetch_ohlcv request issued, in order
    reqs,
    \* cli.main
    main_pc, markets, idx, results,
    \* build_markets: the tickers it is given
    tickers

callVars == <<entry, base, quote, expected_tge_ts>>
exchVars == <<exMarkets, loadFails, hist, shift, mode, dayBook>>
collVars == <<probe_since, earliest_batch, candles, all_candles,
              next_since, last_first_ts, series>>
statVars == <<first_15m_volume, day, day_candle, result>>
mainVars == <<main_pc, markets, idx, results, tickers>>
vars == <<callVars, exchVars, pc, symbol, collVars, statVars, error, reqs,
          mainVars>>

(***************************************************************************)
(* The connector: exchange.milliseconds() and exchange.fetch_ohlcv.        *)
(***************************************************************************)
Now == MaxT

\* the candle the exchange holds for open time ts
CandleAt(ts) == Candle(ts, ((ts + shift) % Len(Profiles)) + 1)

CandlesOf(tss) == [i \in 1..Len(tss) |-> CandleAt(tss[i])]

\* at most `limit` oldest candles with open time >= since, oldest first
HonestPage(since) == CandlesOf(FirstN({t \in hist : t >= since}, limit))

\* the pages an arbitrary connector may answer with
AnyCandles == {Candle(0, 1), Candle(0, 2), Candle(timeframe_ms, 1)}

AnyPages == SeqsUpTo(AnyCandles, limit)

\* the answers fetch_ohlcv may give to a 15m request starting at since
Responses(since) ==
    CASE mode = "honest" -> {HonestPage(since)}
      [] mode = "emptyBelow" ->
            {IF hist # {} /\ since < Min(hist) THEN <<>> ELSE HonestPage(since)}
      [] mode = "stuck" -> {CandlesOf(FirstN(hist, limit))}
      [] mode = "descending" -> {Reverse(HonestPage(since))}
      [] mode = "atOrAfter" ->
            SeqsUpTo({CandleAt(t) : t \in {u \in hist : u >= since}}, limit)
      [] OTHER -> AnyPages

\* a fetch_ohlcv request as logged: its timeframe and since, the loop that
\* issued it, and whether the connector answered (ok) or raised
Request(tf, since, phase, ok) ==
    [tf |-> tf, since |-> since, phase |-> phase, ok |-> ok]

(***************************************************************************)
(* _prepare_exchange_market                                                *)
(***************************************************************************)
Upper(s) ==
    CASE s = "abc" -> "ABC"
      [] s = "usdt" -> "USDT"
      [] OTHER -> s

\* a variant that takes an absent string for a present one
StrTruthyAlways(s) == TRUE

\* Python's truth test on a string or None
StrTruthy(s) == s # "" /\ s # "None"

\* a variant that ignores prefer_spot
MatchingMarketsAnyClass(prefer_spot) ==
    LET ok(i) ==
            /\ StrTruthy(exMarkets[i].base)
            /\ StrTruthy(exMarkets[i].quote)
            /\ Upper(exMarkets[i].base) = Upper(base)
            /\ Upper(exMarkets[i].quote) = Upper(quote)
    IN FirstN({i \in 1..Len(exMarkets) : ok(i)}, Len(exMarkets))

\* _matching_markets(prefer_spot): indices of the matching markets, in order
MatchingMarkets(prefer_spot) ==
    LET ok(i) ==
            /\ StrTruthy(exMarkets[i].base)
            /\ StrTruthy(exMarkets[i].quote)
            /\ Upper(exMarkets[i].base) = Upper(base)
            /\ Upper(exMarkets[i].quote) = Upper(quote)
            /\ (~prefer_spot \/ exMarkets[i].spot)
    IN FirstN({i \in 1..Len(exMarkets) : ok(i)}, Len(exMarkets))

\* a variant that makes up the symbol of a pair without market
ResolvedSymbolGuessed ==
    LET spot_matches == MatchingMarkets(TRUE)
        derivative_matches == MatchingMarkets(FALSE)
    IN IF spot_matches # <<>> THEN exMarkets[spot_matches[1]].symbol
       ELSE IF derivative_matches # <<>>
            THEN exMarkets[derivative_matches[1]].symbol
       ELSE "ABC/USDT"

\* the symbol _prepare_exchange_market resolves, "" when no market matches
ResolvedSymbol ==
    LET spot_matches == MatchingMarkets(TRUE)
        derivative_matches == MatchingMarkets(FALSE)
    IN IF spot_matches # <<>> THEN exMarkets[spot_matches[1]].symbol
       ELSE IF derivative_matches # <<>>
            THEN exMarkets[derivative_matches[1]].symbol
       ELSE ""

\* how fetch_exchange_stats / fetch_trading_flow wrap a collection failure
Wrapped(what) ==
    IF entry = "stats" THEN "EarliestCandleFailed:" \o what
    ELSE "TradingFlowFailed:" \o what

Resolve ==
    /\ pc = "resolve"
    /\ IF loadFails
       THEN /\ pc' = "error"
            /\ error' = "LoadMarketsFailed"
            /\ UNCHANGED <<symbol, probe_since>>
       ELSE IF ResolvedSymbol = ""
       THEN /\ pc' = "error"
            /\ error' = "PairNotFound"
            /\ UNCHANGED <<symbol, probe_since>>
       ELSE /\ pc' = "backward"
            /\ symbol' = ResolvedSymbol
            /\ probe_since' = Now - timeframe_ms * limit
            /\ UNCHANGED error
    /\ UNCHANGED <<callVars, exchVars, earliest_batch, candles, all_candles,
                   next_since, last_first_ts, series, statVars, reqs,
                   mainVars>>

(***************************************************************************)
(* _collect_full_ohlcv: backward discovery of the earliest page            *)
(***************************************************************************)
ProbesMade == Cardinality({i \in 1..Len(reqs) : reqs[i].phase = "probe"})

\* C3 mutant: the repeated first open time is not noticed.
ProbeStopsOnEmptyOnly(page) == page = <<>>

\* the backward loop stops on this page: empty, or its first open time
\* repeats the first open time of the page kept as earliest
ProbeStops(page) ==
    \/ page = <<>>
    \/ (earliest_batch # <<>> /\ page[1][1] = earliest_batch[1][1])

\* a variant of the backward loop whose cursor moves back by one timeframe
ProbeStepsOneCandle ==
    /\ pc = "backward"
    /\ ProbesMade < MaxProbes
    /\ \E fails \in BOOLEAN, page \in Responses(probe_since) :
        /\ reqs' = Append(reqs, Request("15m", probe_since, "probe", ~fails))
        /\ IF fails
           THEN /\ pc' = "error"
                /\ error' = Wrapped("RequestFailed")
                /\ UNCHANGED collVars
           ELSE /\ candles' = page
                /\ UNCHANGED error
                /\ IF ProbeStops(page)
                   THEN IF earliest_batch = <<>>
                        THEN /\ series' = <<>>
                             /\ pc' = "collected"
                             /\ UNCHANGED <<probe_since, earliest_batch,
                                            all_candles, next_since,
                                            last_first_ts>>
                        ELSE /\ all_candles' = <<>>
                             /\ next_since' = earliest_batch[1][1]
                             /\ last_first_ts' = None
                             /\ pc' = "forward"
                             /\ UNCHANGED <<probe_since, earliest_batch, series>>
                   ELSE /\ earliest_batch' = page
                        /\ probe_since' = probe_since - timeframe_ms
                        /\ pc' = "backward"
                        /\ UNCHANGED <<all_candles, next_since, last_first_ts,
                                       series>>
    /\ UNCHANGED <<callVars, exchVars, symbol, statVars, mainVars>>

\* one iteration of the backward loop (and, when it breaks, the set-up of
\* the forward walk or the early return of [])
Probe ==
    /\ pc = "backward"
    /\ ProbesMade < MaxProbes
    /\ \E fails \in BOOLEAN, page \in Responses(probe_since) :
        /\ reqs' = Append(reqs, Request("15m", probe_since, "probe", ~fails))
        /\ IF fails
           THEN /\ pc' = "error"
                /\ error' = Wrapped("RequestFailed")
                /\ UNCHANGED collVars
           ELSE /\ candles' = page
                /\ UNCHANGED error
                /\ IF ProbeStops(page)
                   THEN IF earliest_batch = <<>>
                        THEN /\ series' = <<>>
                             /\ pc' = "collected"
                             /\ UNCHANGED <<probe_since, earliest_batch,
                                            all_candles, next_since,
                                            last_first_ts>>
                        ELSE /\ all_candles' = <<>>
                             /\ next_since' = earliest_batch[1][1]
                             /\ last_first_ts' = None
                             /\ pc' = "forward"
                             /\ UNCHANGED <<probe_since, earliest_batch, series>>
                   ELSE /\ earliest_batch' = page
                        /\ probe_since' = probe_since - timeframe_ms * limit
                        /\ pc' = "backward"
                        /\ UNCHANGED <<all_candles, next_since, last_first_ts,
                                       series>>
    /\ UNCHANGED <<callVars, exchVars, symbol, statVars, mainVars>>

(***************************************************************************)
(* _collect_full_ohlcv: forward walk, merge and deduplication              *)
(***************************************************************************)
\* C1 mutant: the dict's values in insertion order, not sorted by open time.
DedupUnsorted(all) ==
    LET firsts == {i \in 1..Len(all) :
                      \A j \in 1..(i - 1) : all[j][1] # all[i][1]}
        last(ts) == Max({i \in 1..Len(all) : all[i][1] = ts})
        order == FirstN(firsts, Cardinality(firsts))
    IN [j \in 1..Len(order) |-> all[last(all[order[j]][1])]]

\* a variant in which the first candle of an open time is kept
DedupFirstWins(all) ==
    LET keys == {all[i][1] : i \in 1..Len(all)}
        first(ts) == Min({i \in 1..Len(all) : all[i][1] = ts})
        order == FirstN(keys, Cardinality(keys))
    IN [j \in 1..Len(order) |-> all[first(order[j])]]

\* {candle[0]: candle for candle in all_candles}, then sorted by open time
Dedup(all) ==
    LET keys == {all[i][1] : i \in 1..Len(all)}
        last(ts) == Max({i \in 1..Len(all) : all[i][1] = ts})
        order == FirstN(keys, Cardinality(keys))
    IN [j \in 1..Len(order) |-> all[last(order[j])]]

\* the forward loop stops before merging this page
WalkStops(page) ==
    \/ page = <<>>
    \/ (last_first_ts # None /\ page[1][1] = last_first_ts)

\* C5 mutant: the next page is asked for one timeframe too late.
NextSinceTooLate(page) == page[Len(page)][1] + 2 * timeframe_ms

\* a variant that goes on from the first candle of the page
NextSinceFromFirst(page) == page[1][1] + timeframe_ms

\* next_since = candles[-1][0] + timeframe_ms
NextSince(page) == page[Len(page)][1] + timeframe_ms

\* C4 mutant: a short page does not end the walk.
WalkNeverEnds(page) == FALSE

\* the forward loop stops after merging this page
WalkEnds(page) == Len(page) < limit

\* a variant of the forward loop that repeats a failed request
WalkRetries ==
    /\ pc = "forward"
    /\ mode = "any" => Len(all_candles) <= MaxAll
    /\ \E fails \in BOOLEAN, page \in Responses(next_since) :
        /\ reqs' = Append(reqs, Request("15m", next_since, "walk", ~fails))
        /\ IF fails
           THEN /\ pc' = "forward"
                /\ UNCHANGED <<collVars, error>>
           ELSE /\ candles' = page
                /\ UNCHANGED <<error, probe_since, earliest_batch>>
                /\ IF WalkStops(page)
                   THEN /\ series' = Dedup(all_candles)
                        /\ pc' = "collected"
                        /\ UNCHANGED <<all_candles, next_since, last_first_ts>>
                   ELSE /\ last_first_ts' = page[1][1]
                        /\ all_candles' = all_candles \o page
                        /\ next_since' = NextSince(page)
                        /\ IF WalkEnds(page)
                           THEN /\ series' = Dedup(all_candles \o page)
                                /\ pc' = "collected"
                           ELSE /\ pc' = "forward"
                                /\ UNCHANGED series
    /\ UNCHANGED <<callVars, exchVars, symbol, statVars, mainVars>>

\* one iteration of the forward loop (and, when it breaks, the dedup and
\* return of the merged series)
Walk ==
    /\ pc = "forward"
    /\ mode = "any" => Len(all_candles) <= MaxAll
    /\ \E fails \in BOOLEAN, page \in Responses(next_since) :
        /\ reqs' = Append(reqs, Request("15m", next_since, "walk", ~fails))
        /\ IF fails
           THEN /\ pc' = "error"
                /\ error' = Wrapped("RequestFailed")
                /\ UNCHANGED collVars
           ELSE /\ candles' = page
                /\ UNCHANGED <<error, probe_since, earliest_batch>>
                /\ IF WalkStops(page)
                   THEN /\ series' = Dedup(all_candles)
                        /\ pc' = "collected"
                        /\ UNCHANGED <<all_candles, next_since, last_first_ts>>
                   ELSE /\ last_first_ts' = page[1][1]
                        /\ all_candles' = all_candles \o page
                        /\ next_since' = NextSince(page)
                        /\ IF WalkEnds(page)
                           THEN /\ series' = Dedup(all_candles \o page)
                                /\ pc' = "collected"
                           ELSE /\ pc' = "forward"
                                /\ UNCHANGED series
    /\ UNCHANGED <<callVars, exchVars, symbol, statVars, mainVars>>

(***************************************************************************)
(* fetch_exchange_stats: the TGE candle and its statistics                 *)
(***************************************************************************)
NOTE_AFTER_TGE == "history starts after TGE"

NoNote == "None"

\* the absent day_delta_ratio; a ratio is the reduced fraction <<num, den>>
NoRatio == <<>>

Ratio(a, b) == LET g == GCD(a, b) IN <<a \div g, b \div g>>

\* target_candle = candles[0] of the merged series, and its fields
oldest_ts == series[1][1]

oldest_open == series[1][2]

oldest_vol == series[1][6]

\* a variant that tries the open price before the close price
ReferencePriceOpenFirst(c) ==
    IF Truthy(c[2]) THEN c[2]
    ELSE IF Truthy(c[5]) THEN c[5]
    ELSE IF Truthy(c[3]) THEN c[3]
    ELSE IF Truthy(c[4]) THEN c[4]
    ELSE None

\* next(price for price in [close, open, high, low] if price, None)
ReferencePrice(c) ==
    IF Truthy(c[5]) THEN c[5]
    ELSE IF Truthy(c[2]) THEN c[2]
    ELSE IF Truthy(c[3]) THEN c[3]
    ELSE IF Truthy(c[4]) THEN c[4]
    ELSE None

First15mVolume(c) ==
    IF Truthy(c[6]) /\ Truthy(ReferencePrice(c))
    THEN c[6] * ReferencePrice(c)
    ELSE None

\* a variant that also notes a history starting exactly at the expected
\* timestamp
StartsAfterTgeOrAt == Truthy(expected_tge_ts) /\ oldest_ts >= expected_tge_ts

\* a variant that never notes a late history
StartsAfterTgeNever == FALSE

\* expected_tge_ts and oldest_ts > expected_tge_ts
StartsAfterTge == Truthy(expected_tge_ts) /\ oldest_ts > expected_tge_ts

Stats(volume, d_open, d_high, d_delta, note) ==
    [tge_ts |-> oldest_ts, tge_open |-> oldest_open,
     first_15m_volume |-> volume, day_open |-> d_open, day_high |-> d_high,
     day_delta_ratio |-> d_delta, note |-> note]

\* what follows the return of _collect_full_ohlcv: fetch_trading_flow
\* returns the series; fetch_exchange_stats derives the TGE statistics and
\* returns the noted result or goes on to the daily candle
Derive ==
    /\ pc = "collected"
    /\ IF entry = "flow"
       THEN /\ pc' = "done"
            /\ UNCHANGED <<first_15m_volume, result, error>>
       ELSE IF series = <<>>
       THEN /\ pc' = "error"
            /\ error' = Wrapped("NoOHLCV")
            /\ UNCHANGED <<first_15m_volume, result>>
       ELSE /\ first_15m_volume' = First15mVolume(series[1])
            /\ UNCHANGED error
            /\ IF StartsAfterTge
               THEN /\ result' = Stats(First15mVolume(series[1]), None, None,
                                       NoRatio, NOTE_AFTER_TGE)
                    /\ pc' = "done"
               ELSE /\ pc' = "daily"
                    /\ UNCHANGED result
    /\ UNCHANGED <<callVars, exchVars, symbol, collVars, day, day_candle,
                   reqs, mainVars>>

(***************************************************************************)
(* fetch_exchange_stats: the daily candle                                  *)
(***************************************************************************)
\* a variant that drops the upper end of the day interval
ContainingCandleNoUpper(page, target_ts) ==
    LET hits == {i \in 1..Len(page) : page[i][1] <= target_ts}
    IN IF hits = {} THEN <<>> ELSE page[Min(hits)]

\* the first candle of the page whose day contains target_ts, <<>> if none
ContainingCandle(page, target_ts) ==
    LET hits == {i \in 1..Len(page) :
                    /\ page[i][1] <= target_ts
                    /\ target_ts < page[i][1] + day_timeframe_ms}
    IN IF hits = {} THEN <<>> ELSE page[Min(hits)]

\* a variant that takes the earliest eligible candle
FallbackCandleEarliest(page, target_ts) ==
    LET eligible == {i \in 1..Len(page) : page[i][1] <= target_ts}
    IN IF eligible = {} THEN page[1] ELSE page[Min(eligible)]

\* max(eligible, key=lambda c: c[0], default=day[0])
FallbackCandle(page, target_ts) ==
    LET eligible == {i \in 1..Len(page) : page[i][1] <= target_ts}
        best == {i \in eligible : \A j \in eligible : page[j][1] <= page[i][1]}
    IN IF eligible = {} THEN page[1] ELSE page[Min(best)]

SelectDayCandle(page, target_ts) ==
    IF ContainingCandle(page, target_ts) # <<>>
    THEN ContainingCandle(page, target_ts)
    ELSE FallbackCandle(page, target_ts)

\* day_high / oldest_open raises TypeError when day_high is None
DeltaRaises(d_high) == Truthy(oldest_open) /\ d_high = None

\* a variant that divides by the open of the selected daily candle
DayDeltaByDayOpen(d_high) ==
    IF Truthy(oldest_open)
    THEN Ratio(d_high, SelectDayCandle(dayBook, oldest_ts)[2])
    ELSE NoRatio

\* (day_high / oldest_open) if oldest_open else None
DayDelta(d_high) ==
    IF Truthy(oldest_open) THEN Ratio(d_high, oldest_open) ELSE NoRatio

\* a variant whose window starts one day before the TGE timestamp
DaySinceOneDay == oldest_ts - day_timeframe_ms

\* day_since_ts = (target_ts or oldest_ts) - day_timeframe_ms * 2
DaySince == oldest_ts - day_timeframe_ms * 2

\* a variant in which the failure also loses the 15m volume
DegradedStatsLost == Stats(None, None, None, NoRatio, NoNote)

\* day_open = day_high = day_delta = None beside the 15-minute statistics
DegradedStats == Stats(first_15m_volume, None, None, NoRatio, NoNote)

\* the daily request and the day statistics; any exception of the block
\* leaves the three day fields absent
Daily ==
    /\ pc = "daily"
    /\ \E fails \in BOOLEAN :
        /\ reqs' = Append(reqs, Request("1d", DaySince, "day", ~fails))
        /\ IF fails
           THEN /\ result' = DegradedStats
                /\ UNCHANGED <<day, day_candle>>
           ELSE /\ day' = dayBook
                /\ IF dayBook = <<>>
                   THEN /\ result' = DegradedStats
                        /\ UNCHANGED day_candle
                   ELSE LET c == SelectDayCandle(dayBook, oldest_ts) IN
                        /\ day_candle' = c
                        /\ result' =
                             IF DeltaRaises(c[3])
                             THEN DegradedStats
                             ELSE Stats(first_15m_volume, c[2], c[3],
                                        DayDelta(c[3]), NoNote)
    /\ pc' = "done"
    /\ UNCHANGED <<callVars, exchVars, symbol, collVars, first_15m_volume,
                   error, mainVars>>

(***************************************************************************)
(* A direct call of fetch_exchange_stats or fetch_trading_flow             *)
(***************************************************************************)
GoodMarkets ==
    << [base |-> "ABC", quote |-> "USDT", spot |-> TRUE, symbol |-> "ABC/USDT"] >>

\* the markets an exchange may expose: spot and swap markets of the pair
\* (in either letter case), a market of another pair, a market without base
MarketPool ==
    { [base |-> "ABC", quote |-> "USDT", spot |-> TRUE, symbol |-> "ABC/USDT"],
      [base |-> "abc", quote |-> "usdt", spot |-> TRUE, symbol |-> "abc/usdt"],
      [base |-> "ABC", quote |-> "USDT", spot |-> FALSE,
       symbol |-> "ABC/USDT:USDT"],
      [base |-> "XYZ", quote |-> "USDT", spot |-> TRUE, symbol |-> "XYZ/USDT"],
      [base |-> "None", quote |-> "USDT", spot |-> TRUE, symbol |-> "/USDT"] }

\* exchange.markets: a dict, so every market appears once
ExchangeMarkets ==
    {m \in SeqsUpTo(MarketPool, MaxExMarkets) :
        \A i \in 1..Len(m), j \in 1..Len(m) : i # j => m[i] # m[j]}

\* the histories of the paging family
Histories == {h \in SUBSET (0..MaxT) : Cardinality(h) <= MaxHist}

\* a daily candle with open 5 and high 10
DayExample == <<0, 5, 10, 4, 8, 50>>

DayCandles ==
    {Candle(s, k) : s \in {-2 * day_timeframe_ms, -day_timeframe_ms, 0,
                           day_timeframe_ms},
                    k \in {1, 3}}
    \cup {DayExample}

\* the variables of a call before its first step, the exchange and the
\* arguments drawn from the given sets
Fresh(E, X, H, S, M, B, L, K) ==
    /\ entry \in E
    /\ expected_tge_ts \in X
    /\ hist \in H
    /\ shift \in S
    /\ mode \in M
    /\ dayBook \in B
    /\ loadFails \in L
    /\ exMarkets \in K
    /\ base = "abc"
    /\ quote = "usdt"
    /\ symbol = ""
    /\ probe_since = 0
    /\ earliest_batch = <<>>
    /\ candles = <<>>
    /\ all_candles = <<>>
    /\ next_since = 0
    /\ last_first_ts = None
    /\ series = <<>>
    /\ first_15m_volume = None
    /\ day = <<>>
    /\ day_candle = <<>>
    /\ result = <<>>
    /\ error = ""
    /\ reqs = <<>>

CallOf(E, X, H, S, M, B, L, K) ==
    /\ Fresh(E, X, H, S, M, B, L, K)
    /\ pc = "resolve"

\* the same state, entered by a call made from cli.main
EnterCall(E, X, H, S, M, B, L, K) ==
    /\ entry' \in E
    /\ expected_tge_ts' \in X
    /\ hist' \in H
    /\ shift' \in S
    /\ mode' \in M
    /\ dayBook' \in B
    /\ loadFails' \in L
    /\ exMarkets' \in K
    /\ base' = "abc"
    /\ quote' = "usdt"
    /\ pc' = "resolve"
    /\ symbol' = ""
    /\ probe_since' = 0
    /\ earliest_batch' = <<>>
    /\ candles' = <<>>
    /\ all_candles' = <<>>
    /\ next_since' = 0
    /\ last_first_ts' = None
    /\ series' = <<>>
    /\ first_15m_volume' = None
    /\ day' = <<>>
    /\ day_candle' = <<>>
    /\ result' = <<>>
    /\ error' = ""
    /\ reqs' = <<>>

NoMain ==
    /\ main_pc = "none"
    /\ markets = <<>>
    /\ tickers = <<>>
    /\ idx = 0
    /\ results = <<>>

\* pagination over every small history, by every deterministic connector
InitPaging ==
    CallOf({"stats", "flow"}, {None}, Histories, {0},
           {"honest", "emptyBelow", "stuck", "descending"}, {<<>>},
           {FALSE}, {GoodMarkets})

\* pagination against a connector that answers anything
InitAny ==
    CallOf({"stats"}, {None}, {{}}, {0}, {"any"}, {<<>>}, {FALSE},
           {GoodMarkets})

\* the statistics: every candle profile, expected TGE absent, at the epoch,
\* before, at and after the earliest candle
InitStats ==
    CallOf({"stats"}, {None, 0, 2, 7}, {{3, Now}, {7, Now}, {Now - 1}},
           0..(Len(Profiles) - 1), {"honest"},
           {<<>>, <<Candle(0, 1)>>, <<Candle(day_timeframe_ms, 3)>>},
           {FALSE}, {GoodMarkets})

\* the daily candle: every daily page
InitDay ==
    CallOf({"stats"}, {None}, {{3, Now}, {Now - 1}}, {0, 3}, {"honest"},
           SeqsUpTo(DayCandles, MaxDayLen), {FALSE}, {GoodMarkets})

\* market resolution
InitResolve ==
    CallOf({"stats", "flow"}, {None}, {{Now}}, {0}, {"honest"}, {<<>>},
           BOOLEAN, ExchangeMarkets)

\* the histories of the walk family: one or two recent candles, one
\* timeframe apart or more
WalkHistories ==
    {{Now}, {Now - timeframe_ms, Now}, {Now - timeframe_ms - 1, Now}}

\* pagination against a connector that answers with any page, in any
\* order, of candles of a finite history that open at or after since
InitWalk ==
    /\ NoMain
    /\ CallOf({"stats", "flow"}, {None}, WalkHistories, {0}, {"atOrAfter"},
              {<<>>}, {FALSE}, {GoodMarkets})

Init ==
    /\ NoMain
    /\ (InitPaging \/ InitAny \/ InitStats \/ InitDay \/ InitResolve)

Next == Resolve \/ Probe \/ Walk \/ Derive \/ Daily

Spec == Init /\ [][Next]_vars

\* the walk family on its own; a request that can be made is made
SpecWalk == InitWalk /\ [][Next]_vars /\ WF_vars(Next)

(***************************************************************************)
(* cli.main: the per-exchange loop                                         *)
(***************************************************************************)
Market(name, ccxt_id) ==
    [exchange_name |-> name, base |-> "abc", quote |-> "usdt", volume |-> 1,
     ccxt_id |-> ccxt_id, disabled_reason |-> "None"]

\* what build_markets may hand to the loop: exchanges with a connector
\* mapping and one without
MarketSet ==
    {Market("Binance", "binance"), Market("OKX", "okx"),
     Market("Foo", "None")}

\* the row of a market that raised or was skipped
ErrorRow(market, err) ==
    [exchange_name |-> market.exchange_name, base |-> market.base,
     quote |-> market.quote, volume |-> market.volume,
     ccxt_id |-> market.ccxt_id, disabled_reason |-> market.disabled_reason,
     error |-> err, tge_ts |-> None, tge_open |-> None,
     first_15m_volume |-> None, day_open |-> None, day_high |-> None,
     day_delta_ratio |-> NoRatio]

\* {**market, **stats, "error": stats.get("note")}
StatsRow(market, stats) ==
    [exchange_name |-> market.exchange_name, base |-> market.base,
     quote |-> market.quote, volume |-> market.volume,
     ccxt_id |-> market.ccxt_id, disabled_reason |-> market.disabled_reason,
     error |-> stats.note, tge_ts |-> stats.tge_ts,
     tge_open |-> stats.tge_open,
     first_15m_volume |-> stats.first_15m_volume,
     day_open |-> stats.day_open, day_high |-> stats.day_high,
     day_delta_ratio |-> stats.day_delta_ratio, note |-> stats.note]

\* the exchange main's call of fetch_exchange_stats meets
MainCall ==
    EnterCall({"stats"}, {None}, {{}, {Now}}, {0}, {"honest"},
           {<<>>, <<Candle(day_timeframe_ms, 1)>>}, BOOLEAN,
           {GoodMarkets, <<>>})

\* the head of one loop iteration: skip a market without connector, or
\* call fetch_exchange_stats
MainStep ==
    /\ main_pc = "loop"
    /\ idx < Len(markets)
    /\ LET market == markets[idx + 1] IN
        IF ~StrTruthy(market.ccxt_id)
        THEN /\ results' = Append(results,
                    ErrorRow(market,
                             IF StrTruthy(market.disabled_reason)
                             THEN market.disabled_reason ELSE "unsupported"))
             /\ idx' = idx + 1
             /\ UNCHANGED <<main_pc, callVars, exchVars, pc, symbol, collVars,
                            statVars, error, reqs>>
        ELSE /\ main_pc' = "call"
             /\ MainCall
             /\ UNCHANGED <<idx, results>>
    /\ UNCHANGED <<markets, tickers>>

\* a variant in which an exception of fetch_exchange_stats ends the run
MainRecordAborts ==
    /\ main_pc = "call"
    /\ pc \in {"done", "error"}
    /\ IF pc = "done"
       THEN /\ results' = Append(results, StatsRow(markets[idx + 1], result))
            /\ idx' = idx + 1
            /\ main_pc' = "loop"
       ELSE /\ main_pc' = "finished"
            /\ UNCHANGED <<results, idx>>
    /\ pc' = "idle"
    /\ UNCHANGED <<markets, tickers, callVars, exchVars, symbol, collVars, statVars,
                   error, reqs>>

\* the tail of the iteration: the row of the returned statistics, or of
\* the exception fetch_exchange_stats raised
MainRecord ==
    /\ main_pc = "call"
    /\ pc \in {"done", "error"}
    /\ results' = Append(results,
            IF pc = "done" THEN StatsRow(markets[idx + 1], result)
            ELSE ErrorRow(markets[idx + 1], error))
    /\ idx' = idx + 1
    /\ main_pc' = "loop"
    /\ pc' = "idle"
    /\ UNCHANGED <<markets, tickers, callVars, exchVars, symbol, collVars, statVars,
                   error, reqs>>

\* the loop is over: the results go to _format_results
MainFinish ==
    /\ main_pc = "loop"
    /\ idx = Len(markets)
    /\ main_pc' = "finished"
    /\ UNCHANGED <<markets, tickers, idx, results, callVars, exchVars, pc, symbol,
                   collVars, statVars, error, reqs>>

InitMain ==
    /\ main_pc = "loop"
    /\ markets \in SeqsUpTo(MarketSet, MaxMarkets)
    /\ tickers = <<>>
    /\ idx = 0
    /\ results = <<>>
    /\ Fresh({"stats"}, {None}, {{}}, {0}, {"honest"}, {<<>>}, {FALSE},
             {<<>>})
    /\ pc = "idle"

MainNext ==
    \/ MainStep \/ MainRecord \/ MainFinish
    \/ (main_pc = "call" /\ Next)

SpecMain == InitMain /\ [][MainNext]_vars

(***************************************************************************)
(* build_markets and is_dex_name.  An exchange name is the sequence of its *)
(* characters, the absent or empty name the empty sequence.                *)
(***************************************************************************)
UpperCase ==
    <<"A", "B", "C", "D", "E", "F", "G", "H", "I", "J", "K", "L", "M",
      "N", "O", "P", "Q", "R", "S", "T", "U", "V", "W", "X", "Y", "Z">>

LowerCase ==
    <<"a", "b", "c", "d", "e", "f", "g", "h", "i", "j", "k", "l", "m",
      "n", "o", "p", "q", "r", "s", "t", "u", "v", "w", "x", "y", "z">>

LowerChar(c) ==
    IF \E i \in 1..Len(UpperCase) : UpperCase[i] = c
    THEN LowerCase[CHOOSE i \in 1..Len(UpperCase) : UpperCase[i] = c]
    ELSE c

\* name.lower()
Lower(name) == [i \in 1..Len(name) |-> LowerChar(name[i])]

\* term in normalized
HasTerm(name, term) ==
    \E i \in 0..(Len(name) - Len(term)) :
        \A j \in 1..Len(term) : name[i + j] = term[j]

DexTerms ==
    { <<"s", "w", "a", "p">>,
      <<"u", "n", "i", "s", "w", "a", "p">>,
      <<"p", "a", "n", "c", "a", "k", "e">>,
      <<"s", "u", "s", "h", "i", "s", "w", "a", "p">> }

\* any(term in normalized for term in (...))
is_dex_name(name) == \E term \in DexTerms : HasTerm(Lower(name), term)

\* exchange names: two with a connector mapping, one without, two DEXes
OKX == <<"O", "K", "X">>

MEXC == <<"M", "E", "X", "C">>

HTX == <<"H", "T", "X">>

JSwap == <<"J", "S", "w", "a", "p">>

Pancake == <<"P", "a", "n", "c", "a", "k", "e">>

\* EXCHANGE_NAME_TO_CCXT_ID.get(name), for the names above
CcxtIdOf(name) ==
    CASE name = OKX -> "okx"
      [] name = MEXC -> "mexc"
      [] OTHER -> "None"

Ticker(n, b, t, v) == [name |-> n, base |-> b, target |-> t, volume |-> v]

\* the tickers build_markets may be given
TickerPool ==
    { Ticker(OKX, "abc", "usdt", 1), Ticker(OKX, "abc", "usdc", 2),
      Ticker(OKX, "xyz", "usdt", 2), Ticker(OKX, "abc", "eur", None),
      Ticker(MEXC, "abc", "usdt", 0), Ticker(HTX, "abc", "usdt", 1),
      Ticker(JSwap, "abc", "usdt", 3), Ticker(Pancake, "abc", "usdt", 3),
      Ticker(<<>>, "abc", "usdt", 3), Ticker(OKX, "None", "usdt", 3),
      Ticker(MEXC, "abc", "None", 3) }

\* ticker.get("volume") or 0
VolumeOf(ticker) == IF Truthy(ticker.volume) THEN ticker.volume ELSE 0

\* the tickers build_markets skips
Skipped(ticker) ==
    \/ ticker.name = <<>>
    \/ is_dex_name(ticker.name)
    \/ ~StrTruthy(ticker.base)
    \/ ~StrTruthy(ticker.target)

MarketOf(ticker) ==
    [exchange_name |-> ticker.name, base |-> ticker.base,
     quote |-> ticker.target, volume |-> VolumeOf(ticker),
     ccxt_id |-> CcxtIdOf(ticker.name), disabled_reason |-> "None"]

\* a variant in which a ticker of equal volume replaces the entry
ReplacesOnTie(ticker, kept) == VolumeOf(ticker) >= kept.volume

\* volume > markets[name]["volume"]
Replaces(ticker, kept) == VolumeOf(ticker) > kept.volume

\* the dict `markets` after the tickers from the i-th on, as the sequence
\* of its values in insertion order
RECURSIVE BuildFrom(_, _, _)
BuildFrom(tk, i, acc) ==
    IF i > Len(tk) THEN acc
    ELSE IF Skipped(tk[i]) THEN BuildFrom(tk, i + 1, acc)
    ELSE LET at == {k \in 1..Len(acc) : acc[k].exchange_name = tk[i].name}
         IN IF at = {}
            THEN BuildFrom(tk, i + 1, Append(acc, MarketOf(tk[i])))
            ELSE LET k == CHOOSE k \in at : TRUE
                 IN IF Replaces(tk[i], acc[k])
                    THEN BuildFrom(tk, i + 1,
                                   [acc EXCEPT ![k] = MarketOf(tk[i])])
                    ELSE BuildFrom(tk, i + 1, acc)

build_markets(tk) == BuildFrom(tk, 1, <<>>)

\* markets = build_markets(tickers)
Build ==
    /\ main_pc = "build"
    /\ markets' = build_markets(tickers)
    /\ main_pc' = "built"
    /\ UNCHANGED <<tickers, idx, results, callVars, exchVars, pc, symbol,
                   collVars, statVars, error, reqs>>

InitBuild ==
    /\ main_pc = "build"
    /\ tickers \in SeqsUpTo(TickerPool, MaxTickers)
    /\ markets = <<>>
    /\ idx = 0
    /\ results = <<>>
    /\ Fresh({"stats"}, {None}, {{}}, {0}, {"honest"}, {<<>>}, {FALSE},
             {<<>>})
    /\ pc = "idle"

SpecBuild == InitBuild /\ [][Build]_vars

(***************************************************************************)
(* Properties                                                              *)
(***************************************************************************)
Range(seq) == {seq[i] : i \in 1..Len(seq)}

ProbeReqs == {i \in 1..Len(reqs) : reqs[i].phase = "probe"}

WalkReqs == {i \in 1..Len(reqs) : reqs[i].phase = "walk"}

Requests15m == {i \in 1..Len(reqs) : reqs[i].tf = "15m"}

\* _collect_full_ohlcv has returned its series
Collected == pc \in {"collected", "daily", "done"}

\* the backward loop has just been left: no forward request made yet
BackwardLeft == pc \in {"forward", "collected"} /\ WalkReqs = {}

\* the connector of C2 and C5: the at most `limit` oldest candles >= since
HonestConnector == mode = "honest"

Aligned(h) == \A t \in h : t % timeframe_ms = 0

\* the page that starts at the oldest candle of the history
OldestPage == CandlesOf(FirstN(hist, limit))

\* C1: every series returned by _collect_full_ohlcv (to fetch_exchange_stats
\* and to fetch_trading_flow), whatever pages the connector answered with,
\* has strictly increasing open times, so each open time appears once.
C1_StrictlyIncreasing ==
    \A i \in 1..Len(series), j \in 1..Len(series) :
        i < j => series[i][1] < series[j][1]

\* C1 witness: a series of two candles merged from pages that repeated an
\* open time or were out of order.
C1_Witness ==
    /\ pc = "collected"
    /\ Len(series) >= 2
    /\ \E i \in 1..Len(all_candles), j \in 1..Len(all_candles) :
          i < j /\ all_candles[i][1] >= all_candles[j][1]

\* C2 as claimed: served by an honest connector, the first candle of a
\* non-empty returned series is the oldest candle of the whole history.
C2_EarliestFound ==
    (HonestConnector /\ hist # {} /\ Collected /\ series # <<>>)
        => series[1] = CandleAt(Min(hist))

PreviousProbePage ==
    LET n == Cardinality(ProbeReqs)
    IN IF n < 2 THEN <<>>
       ELSE CHOOSE page \in Responses(reqs[n - 1].since) : TRUE

ShortForwardPage ==
    /\ reqs # <<>>
    /\ reqs[Len(reqs)].phase = "walk"
    /\ reqs[Len(reqs)].ok
    /\ Len(candles) < limit

\* C4 as claimed: after a short forward page the candles of that page are
\* part of the returned series.
C4_ShortPageInSeries ==
    (Collected /\ ShortForwardPage) => Range(candles) \subseteq Range(series)

\* the last candle a page gives for the open time of its i-th candle
LastOf(page, i) ==
    page[Max({k \in 1..Len(page) : page[k][1] = page[i][1]})]

\* C4 as amended: once a forward page is short no further 15m request is
\* issued; and unless its first open time repeats the first open time of
\* the previous forward page (such a page is dropped), every open time of
\* the short page is in the returned series, with the values of the last
\* candle the page gives for it.
C4_StopsAtShortPage ==
    [][/\ ShortForwardPage => Requests15m' = Requests15m
       /\ (/\ pc = "forward"
           /\ ShortForwardPage'
           /\ ~(last_first_ts # None /\ candles' # <<>>
                /\ candles'[1][1] = last_first_ts))
              => /\ pc' = "collected"
                 /\ \A i \in 1..Len(candles') :
                       LastOf(candles', i) \in Range(series')]_vars

\* C4 witness: a short, non-empty page ended a walk of two requests and its
\* candles are in the series.
C4_Witness ==
    /\ pc = "collected"
    /\ ShortForwardPage
    /\ candles # <<>>
    /\ Cardinality(WalkReqs) >= 2
    /\ Range(candles) \subseteq Range(series)
    /\ Len(series) > Len(candles)

\* C5: served by an honest connector, with every open time of the history
\* a multiple of the timeframe, the returned series holds every candle of
\* the history from its first open time on.
C5_CompleteFromFirst ==
    (HonestConnector /\ Aligned(hist) /\ Collected /\ series # <<>>) =>
        \A t \in hist : t >= series[1][1] => CandleAt(t) \in Range(series)

\* C5 witness: a series of three candles collected in two forward pages.
C5_Witness ==
    /\ HonestConnector
    /\ Aligned(hist)
    /\ pc = "collected"
    /\ Len(series) >= 3
    /\ Cardinality(WalkReqs) >= 2

\* C6 (under SpecMain): the loop of cli.main appends exactly one row per
\* market, in input order, whatever the outcome of each exchange; when the
\* loop is over the results hold one row for every market.
C6_OneRowPerMarket ==
    /\ Len(results) = idx
    /\ idx <= Len(markets)
    /\ \A i \in 1..Len(results) :
          results[i].exchange_name = markets[i].exchange_name
    /\ main_pc = "finished" => Len(results) = Len(markets)

\* C6 witness: the loop finished over two markets, the first of which
\* failed and the second of which succeeded.
C6_Witness ==
    /\ main_pc = "finished"
    /\ Len(markets) = 2
    /\ Len(results) = 2
    /\ results[1].error = "PairNotFound"
    /\ results[2].error = NoNote
    /\ results[2].tge_ts # None

\* the daily request was answered with a non-empty page
DayPageReturned == pc = "done" /\ entry = "stats" /\ day # <<>>

Contains(c) == c[1] <= oldest_ts /\ oldest_ts < c[1] + day_timeframe_ms

\* the index of the first returned daily candle whose day contains the TGE
\* timestamp, 0 if there is none
FirstContaining ==
    IF \E i \in 1..Len(day) : Contains(day[i])
    THEN CHOOSE i \in 1..Len(day) :
            Contains(day[i]) /\ \A j \in 1..(i - 1) : ~Contains(day[j])
    ELSE 0

DayFieldsAbsent ==
    /\ result.day_open = None
    /\ result.day_high = None
    /\ result.day_delta_ratio = NoRatio

\* C7 as claimed: when a returned daily candle contains the TGE timestamp,
\* day_open and day_high are those of the first such candle.
C7_ContainingCandleReported ==
    (DayPageReturned /\ FirstContaining # 0) =>
        /\ result.day_open = day[FirstContaining][2]
        /\ result.day_high = day[FirstContaining][3]

\* C7 as amended: when a returned daily candle contains the TGE timestamp,
\* the first such candle is the one selected, and day_open and day_high are
\* taken from it unless dividing its high by the TGE open raises (the high
\* is absent and the TGE open is not zero or absent): then the three day
\* fields are absent.
C7_ContainingCandleSelected ==
    (DayPageReturned /\ FirstContaining # 0) =>
        /\ day_candle = day[FirstContaining]
        /\ IF Truthy(oldest_open) /\ day[FirstContaining][3] = None
           THEN DayFieldsAbsent
           ELSE /\ result.day_open = day[FirstContaining][2]
                /\ result.day_high = day[FirstContaining][3]

\* C7 witness: daily candles opening at T-2d, T-1d and T, the TGE
\* timestamp inside the day of T, and the candle of T reported.
C7_Witness ==
    /\ DayPageReturned
    /\ Len(day) = 3
    /\ day[1][1] = -2 * day_timeframe_ms
    /\ day[2][1] = -day_timeframe_ms
    /\ day[3][1] = 0
    /\ oldest_ts = 3
    /\ FirstContaining = 3
    /\ result.day_open = day[3][2]
    /\ result.day_high = day[3][3]
    /\ result.day_high # None

\* C8: when no returned daily candle contains the TGE timestamp, the
\* selected candle is a returned candle with the latest open time not after
\* the TGE timestamp, or the first returned candle when every returned
\* candle opens after the TGE timestamp.
C8_FallbackSelected ==
    (DayPageReturned /\ FirstContaining = 0) =>
        IF \E i \in 1..Len(day) : day[i][1] <= oldest_ts
        THEN /\ day_candle \in Range(day)
             /\ day_candle[1] <= oldest_ts
             /\ \A i \in 1..Len(day) :
                   day[i][1] <= oldest_ts => day[i][1] <= day_candle[1]
        ELSE day_candle = day[1]

\* C8 witness: only the candles of T-2d and T-1d are returned, none holds
\* the TGE timestamp, and the candle of T-1d is selected.
C8_Witness ==
    /\ DayPageReturned
    /\ Len(day) = 2
    /\ day[1][1] = -2 * day_timeframe_ms
    /\ day[2][1] = -day_timeframe_ms
    /\ oldest_ts = 3
    /\ FirstContaining = 0
    /\ day_candle = day[2]

\* C9 as claimed: whenever an expected TGE timestamp was supplied and the
\* earliest candle opens strictly after it, the result carries the note.
C9_NoteWheneverSupplied ==
    (/\ pc = "done"
     /\ entry = "stats"
     /\ expected_tge_ts # None
     /\ series[1][1] > expected_tge_ts) => result.note = NOTE_AFTER_TGE

\* C9 as amended: a result of fetch_exchange_stats carries the note exactly
\* when an expected TGE timestamp other than 0 was supplied and the earliest
\* candle opens strictly after it; the noted result has no day statistics
\* and still reports tge_ts, tge_open and first_15m_volume of the earliest
\* candle.
C9_NoteIffHistoryStartsAfter ==
    (pc = "done" /\ entry = "stats") =>
        IF /\ expected_tge_ts # None
           /\ expected_tge_ts # 0
           /\ series[1][1] > expected_tge_ts
        THEN /\ result.note = NOTE_AFTER_TGE
             /\ DayFieldsAbsent
             /\ result.tge_ts = series[1][1]
             /\ result.tge_open = series[1][2]
             /\ result.first_15m_volume = first_15m_volume
        ELSE result.note = NoNote

\* C9 witness: the earliest candle opens one unit after the expected TGE
\* timestamp and the noted result reports a volume.
C9_Witness ==
    /\ pc = "done"
    /\ entry = "stats"
    /\ expected_tge_ts # None
    /\ series[1][1] = expected_tge_ts + 1
    /\ result.note = NOTE_AFTER_TGE
    /\ result.first_15m_volume # None

DailyRequestFailed == \E i \in 1..Len(reqs) : reqs[i].tf = "1d" /\ ~reqs[i].ok

\* C10: when the daily request fails, fetch_exchange_stats still returns
\* a result (it does not raise): the day fields are absent and tge_ts,
\* tge_open and first_15m_volume are those of the earliest 15m candle.
C10_DailyFailureDegrades ==
    DailyRequestFailed =>
        /\ pc \in {"done", "idle"}
        /\ error = ""
        /\ DayFieldsAbsent
        /\ result.note = NoNote
        /\ result.tge_ts = series[1][1]
        /\ result.tge_open = series[1][2]
        /\ result.first_15m_volume = First15mVolume(series[1])

\* C10 witness: the daily request failed and the result still reports the
\* volume of the first 15 minutes.
C10_Witness ==
    /\ DailyRequestFailed
    /\ pc = "done"
    /\ result.first_15m_volume = 1200
    /\ result.tge_open = 10

\* fetch_exchange_stats raised the empty-history error
EmptyHistoryError == pc = "error" /\ error = "EarliestCandleFailed:NoOHLCV"

\* C11 as claimed: the empty-history error is raised only when the exchange
\* holds no candle at all, at any depth.
C11_EmptyHistoryOnlyWhenNoCandles ==
    (HonestConnector /\ EmptyHistoryError) => hist = {}

\* C11, the converse direction: an exchange without any candle makes
\* fetch_exchange_stats raise the empty-history error unless a request fails.
C11_NoCandlesGivesError ==
    (/\ mode \in {"honest", "emptyBelow", "stuck", "descending"}
     /\ hist = {}
     /\ entry = "stats"
     /\ pc \in {"done", "error", "daily"})
        => /\ pc = "error"
           /\ error \in {"EarliestCandleFailed:NoOHLCV",
                         "EarliestCandleFailed:RequestFailed",
                         "LoadMarketsFailed", "PairNotFound"}
           /\ result = <<>>

\* the markets of the exchange whose base and quote are the requested pair,
\* letter case ignored
PairMarkets ==
    {i \in 1..Len(exMarkets) :
        /\ exMarkets[i].base \in {"abc", "ABC"}
        /\ exMarkets[i].quote \in {"usdt", "USDT"}}

\* _prepare_exchange_market has returned
Resolved == pc \notin {"resolve", "error", "idle"} \/ symbol # ""

\* C12: the resolved symbol is that of the first spot market of the pair in
\* the exchange's iteration order; only when the pair has no spot market is
\* it that of the first market of the pair.
C12_PrefersSpot ==
    Resolved =>
        LET spots == {i \in PairMarkets : exMarkets[i].spot}
        IN /\ PairMarkets # {}
           /\ symbol = IF spots # {} THEN exMarkets[Min(spots)].symbol
                       ELSE exMarkets[Min(PairMarkets)].symbol

\* C12 witness: a swap market of the pair comes first, two spot markets of
\* the pair follow, and the first of the spot markets is resolved.
C12_Witness ==
    /\ Resolved
    /\ Len(exMarkets) = 3
    /\ PairMarkets = {1, 2, 3}
    /\ ~exMarkets[1].spot
    /\ exMarkets[2].spot
    /\ exMarkets[3].spot
    /\ symbol = exMarkets[2].symbol

\* C13: when the exchange's markets are loaded and none of them is a market
\* of the requested pair, the call (fetch_exchange_stats or
\* fetch_trading_flow) ends with the market-not-found error, without a
\* result and without any candle request.
C13_NoMarketNoRequest ==
    (pc # "resolve" /\ ~loadFails /\ PairMarkets = {}) =>
        /\ pc = "error"
        /\ error = "PairNotFound"
        /\ symbol = ""
        /\ reqs = <<>>
        /\ result = <<>>
        /\ series = <<>>

\* C13 witness: fetch_trading_flow failed on an exchange that exposes two
\* markets, neither of the requested pair.
C13_Witness ==
    /\ entry = "flow"
    /\ pc = "error"
    /\ error = "PairNotFound"
    /\ ~loadFails
    /\ Len(exMarkets) = 2
    /\ PairMarkets = {}
    /\ reqs = <<>>

\* fetch_exchange_stats has computed the statistics of the TGE candle
StatsDerived == entry = "stats" /\ pc \in {"daily", "done"}

\* close, open, high, low of a candle, in the order they are tried
PriceOrder(c) == <<c[5], c[2], c[3], c[4]>>

\* the positions of PriceOrder that hold a price neither absent nor zero
UsablePrices(c) == {k \in 1..4 : PriceOrder(c)[k] \notin {None, 0}}

\* C14 as claimed: whenever the TGE candle has a volume and some price of
\* it is neither absent nor zero, the first-15-minute volume is that volume
\* times the first such price in the order close, open, high, low.
C14_VolumeIsProduct ==
    (StatsDerived /\ UsablePrices(series[1]) # {} /\ series[1][6] # None) =>
        first_15m_volume =
            series[1][6] * PriceOrder(series[1])[Min(UsablePrices(series[1]))]

\* C14 as amended: the first-15-minute volume is the TGE candle's volume
\* times the first price neither absent nor zero in the order close, open,
\* high, low, when that volume is neither absent nor zero and such a price
\* exists; otherwise it is absent.  The result reports that value.
C14_VolumeTimesReferencePrice ==
    StatsDerived =>
        LET c == series[1] IN
        /\ first_15m_volume =
              IF UsablePrices(c) # {} /\ c[6] \notin {None, 0}
              THEN c[6] * PriceOrder(c)[Min(UsablePrices(c))]
              ELSE None
        /\ pc = "done" => result.first_15m_volume = first_15m_volume

\* C14 witness: the TGE candle has close 0, open 0, high 7, low 3 and
\* volume 5, and the reported volume is 5 * 7.
C14_Witness ==
    /\ StatsDerived
    /\ pc = "done"
    /\ series[1][5] = 0
    /\ series[1][2] = 0
    /\ series[1][3] = 7
    /\ series[1][4] = 3
    /\ series[1][6] = 5
    /\ result.first_15m_volume = 35

\* C15: a reported day_delta_ratio n/d is the high of the selected daily
\* candle divided by the open of the TGE candle: n * (TGE open) equals
\* d * (day high), whatever the open of the daily candle.
C15_RatioOverTgeOpen ==
    (/\ pc = "done"
     /\ entry = "stats"
     /\ result.day_delta_ratio # NoRatio) =>
        /\ day_candle # <<>>
        /\ series[1][2] \notin {None, 0}
        /\ result.day_high = day_candle[3]
        /\ result.day_delta_ratio[2] > 0
        /\ result.day_delta_ratio[1] * series[1][2]
              = result.day_delta_ratio[2] * day_candle[3]

\* C15 witness: day high 10, TGE open 2 and day open 5 give the ratio 5.
C15_Witness ==
    /\ pc = "done"
    /\ entry = "stats"
    /\ day_candle = DayExample
    /\ series[1][2] = 2
    /\ result.day_open = 5
    /\ result.day_high = 10
    /\ result.day_delta_ratio = <<5, 1>>

\* the last request was a forward request and the connector answered it
ForwardPageFetched ==
    /\ reqs # <<>>
    /\ reqs[Len(reqs)].phase = "walk"
    /\ reqs[Len(reqs)].ok

\* C16 as claimed: when the page fetched last in the forward walk holds a
\* candle for an open time that a page fetched before it also holds, the
\* returned series holds the candle of the page fetched last.
C16_LaterPageWins ==
    (pc = "collected" /\ ForwardPageFetched) =>
        \A i \in 1..Len(candles) :
            (\E k \in 1..Len(all_candles) :
                all_candles[k][1] = candles[i][1])
                => LastOf(candles, i) \in Range(series)

\* C16 as amended: a forward page is merged, appended as it is to the
\* pages merged before it, unless it is empty or its first open time
\* equals the first open time of the forward page before it; the returned
\* series holds, for every open time of the merged pages, the candle that
\* was merged last, and no other candle.
C16_LastMergedWins ==
    /\ [][(pc = "forward" /\ ForwardPageFetched' /\ reqs' # reqs) =>
            all_candles' =
                IF \/ candles' = <<>>
                   \/ (last_first_ts # None
                       /\ candles'[1][1] = last_first_ts)
                THEN all_candles
                ELSE all_candles \o candles']_vars
    /\ [](pc = "collected" /\ ForwardPageFetched =>
            /\ \A i \in 1..Len(all_candles) :
                  LastOf(all_candles, i) \in Range(series)
            /\ \A k \in 1..Len(series) :
                  \E i \in 1..Len(all_candles) :
                      series[k] = LastOf(all_candles, i))

\* C16 witness: two merged pages hold different candles for one open time
\* and the series holds the one of the second page.
C16_Witness ==
    /\ pc = "collected"
    /\ ForwardPageFetched
    /\ Len(all_candles) = 2 * limit
    /\ \E i \in 1..limit, j \in (limit + 1)..(2 * limit) :
          /\ all_candles[i][1] = all_candles[j][1]
          /\ all_candles[i] # all_candles[j]
          /\ all_candles[j] = LastOf(all_candles, j)
          /\ all_candles[j] \in Range(series)
          /\ all_candles[i] \notin Range(series)

\* the requests of the 15m pagination that the connector failed
FailedPageReqs == {i \in Requests15m : ~reqs[i].ok}

\* C17: a failed page request of the backward discovery or of the forward
\* walk is the last request of the call: nothing is requested after it (it
\* is not repeated), and the call ends with an error and no result.
C17_FailureIsTerminal ==
    \A i \in FailedPageReqs :
        /\ i = Len(reqs)
        /\ pc = "error"
        /\ error = Wrapped("RequestFailed")
        /\ result = <<>>

\* C17 witness: fetch_exchange_stats failed on the second request of the
\* forward walk, after the backward discovery had succeeded.
C17_Witness ==
    /\ entry = "stats"
    /\ pc = "error"
    /\ FailedPageReqs = {Len(reqs)}
    /\ reqs[Len(reqs)].phase = "walk"
    /\ Cardinality(WalkReqs) = 2
    /\ error = "EarliestCandleFailed:RequestFailed"

\* the loop of cli.main is at a market without connector identifier
AtUnmappedMarket ==
    /\ main_pc = "loop"
    /\ idx < Len(markets)
    /\ markets[idx + 1].ccxt_id = "None"

\* the row of a market that was not queried
UnsupportedRow(row) ==
    /\ row.error = "unsupported"
    /\ row.tge_ts = None
    /\ row.tge_open = None
    /\ row.first_15m_volume = None
    /\ row.day_open = None
    /\ row.day_high = None
    /\ row.day_delta_ratio = NoRatio

\* C18 (under SpecMain): a market without connector identifier is never
\* handed to fetch_exchange_stats; the loop passes it in one step that
\* issues no request and appends one row, the row of that market with the
\* "unsupported" marker as error and every statistics field absent.
C18_UnmappedMarketSkipped ==
    /\ [](main_pc = "call" => markets[idx + 1].ccxt_id # "None")
    /\ [](\A i \in 1..Len(results) :
            markets[i].ccxt_id = "None" => UnsupportedRow(results[i]))
    /\ [][AtUnmappedMarket =>
            /\ main_pc' = "loop"
            /\ idx' = idx + 1
            /\ Len(results') = Len(results) + 1
            /\ \A i \in 1..Len(results) : results'[i] = results[i]
            /\ results'[idx + 1].exchange_name = markets[idx + 1].exchange_name
            /\ UnsupportedRow(results'[idx + 1])
            /\ pc' = pc
            /\ reqs' = reqs
            /\ symbol' = symbol]_vars

\* C18 witness: the loop finished over a market without connector and a
\* market with one; the first has the "unsupported" row, the second was
\* queried and has statistics.
C18_Witness ==
    /\ main_pc = "finished"
    /\ Len(markets) = 2
    /\ markets[1].ccxt_id = "None"
    /\ markets[2].ccxt_id # "None"
    /\ Len(results) = 2
    /\ UnsupportedRow(results[1])
    /\ results[2].tge_ts # None
    /\ reqs # <<>>

DayReqs == {i \in 1..Len(reqs) : reqs[i].tf = "1d"}

\* the stage changes of one call: resolving, backward discovery, forward
\* walk, the collected series, the daily request, done; or the error exit
StageChanges ==
    {<<"resolve", "backward">>, <<"backward", "forward">>,
     <<"backward", "collected">>, <<"forward", "collected">>,
     <<"collected", "daily">>, <<"collected", "done">>, <<"daily", "done">>,
     <<"resolve", "error">>, <<"backward", "error">>, <<"forward", "error">>,
     <<"collected", "error">>}

\* C19: within one call the stages follow one another only in the order
\* resolving, backward discovery, forward walk, daily request, done; no
\* request is issued before the market is resolved; every probe request
\* precedes every forward request; at most one daily request is issued,
\* after every 15m request and after a forward walk that returned a series;
\* and no daily request is issued when the earliest candle opens after the
\* expected TGE timestamp (the noted result).
C19_StageOrder ==
    /\ [][pc' # pc => <<pc, pc'>> \in StageChanges]_vars
    /\ [](pc = "resolve" => reqs = <<>>)
    /\ [](reqs # <<>> => symbol # "")
    /\ [](\A i \in ProbeReqs, j \in WalkReqs : i < j)
    /\ [](ProbeReqs = {} => WalkReqs = {})
    /\ [](Cardinality(DayReqs) <= 1)
    /\ [](\A d \in DayReqs :
            /\ d = Len(reqs)
            /\ WalkReqs # {}
            /\ series # <<>>
            /\ pc = "done"
            /\ entry = "stats")
    /\ []((result # <<>> /\ result.note = NOTE_AFTER_TGE) => DayReqs = {})
    /\ []((/\ series # <<>>
           /\ expected_tge_ts \notin {None, 0}
           /\ series[1][1] > expected_tge_ts) => DayReqs = {})

\* C19 witness: a call that went through every stage: two probes, two
\* forward requests, then the single daily request as the last request.
C19_Witness ==
    /\ pc = "done"
    /\ entry = "stats"
    /\ Cardinality(ProbeReqs) >= 2
    /\ Cardinality(WalkReqs) >= 2
    /\ DayReqs = {Len(reqs)}
    /\ result.day_high # None

\* C20: the first probe is requested at now - timeframe_ms * limit and every
\* later probe exactly timeframe_ms * limit below the probe before it; the
\* backward loop goes on to the next probe, keeping the page as earliest,
\* whenever the page is neither empty nor a repetition of the first open
\* time, and is left only on such a page or on a failed request.
C20_CursorSteps ==
    /\ [](\A i \in ProbeReqs :
            IF i = 1
            THEN reqs[i].since = Now - timeframe_ms * limit
            ELSE /\ (i - 1) \in ProbeReqs
                 /\ reqs[i].since = reqs[i - 1].since - timeframe_ms * limit
                 /\ reqs[i].since < reqs[i - 1].since)
    /\ [](pc = "backward" =>
            probe_since = Now - (Cardinality(ProbeReqs) + 1)
                                  * timeframe_ms * limit)
    /\ [][(pc = "backward" /\ reqs' # reqs) =>
            LET stop ==
                  \/ ~reqs'[Len(reqs')].ok
                  \/ candles' = <<>>
                  \/ (earliest_batch # <<>>
                      /\ candles'[1][1] = earliest_batch[1][1])
            IN /\ reqs'[Len(reqs')].phase = "probe"
               /\ reqs'[Len(reqs')].since = probe_since
               /\ (pc' = "backward") <=> ~stop
               /\ ~stop => earliest_batch' = candles']_vars

\* C20 witness: the connector kept answering with pages that differ in
\* their first open time, and the loop is at its MaxProbes-th probe, the
\* cursor MaxProbes steps below the first.
C20_Witness ==
    /\ pc = "backward"
    /\ Cardinality(ProbeReqs) = MaxProbes
    /\ reqs[1].since = Now - timeframe_ms * limit
    /\ reqs[MaxProbes].since = Now - MaxProbes * timeframe_ms * limit
    /\ \A i \in ProbeReqs : reqs[i].ok

\* the forward page just received repeats the first open time of the
\* forward page before it
RepeatsFirst(page) ==
    last_first_ts # None /\ page # <<>> /\ page[1][1] = last_first_ts

\* C21 (under SpecWalk): against a connector that answers with candles of
\* a finite history opening at or after since, the forward walk ends.  Its
\* first request is at the first open time of the earliest page and every
\* request at next_since, which after a merged page is the last open time
\* of that page plus timeframe_ms and so grows with every page; the walk
\* stops, without merging, at an empty page or at a page that repeats the
\* first open time of the page before it, and after merging at a page
\* shorter than the limit; otherwise it goes on.
C21_ForwardWalkTerminates ==
    /\ (pc = "forward") ~> (pc \in {"collected", "error"})
    /\ [](WalkReqs # {} =>
            reqs[Min(WalkReqs)].since = earliest_batch[1][1])
    /\ [](pc = "forward" => next_since <= Max(hist) + timeframe_ms)
    /\ [][(pc = "forward" /\ reqs' # reqs) =>
            /\ reqs' = Append(reqs, reqs'[Len(reqs')])
            /\ reqs'[Len(reqs')].phase = "walk"
            /\ reqs'[Len(reqs')].since = next_since
            /\ IF ~reqs'[Len(reqs')].ok
               THEN pc' = "error"
               ELSE IF candles' = <<>> \/ RepeatsFirst(candles')
               THEN /\ pc' = "collected"
                    /\ all_candles' = all_candles
               ELSE /\ all_candles' = all_candles \o candles'
                    /\ next_since' = candles'[Len(candles')][1] + timeframe_ms
                    /\ next_since' > next_since
                    /\ pc' = IF Len(candles') < limit
                             THEN "collected" ELSE "forward"]_vars

\* C21 witness: a walk of three requests that merged two full pages, the
\* first of them one candle repeated, and ended at an empty page.
C21_Witness ==
    /\ mode = "atOrAfter"
    /\ pc = "collected"
    /\ Cardinality(WalkReqs) = 3
    /\ reqs[Len(reqs)].phase = "walk"
    /\ reqs[Len(reqs)].ok
    /\ candles = <<>>
    /\ Len(all_candles) = 2 * limit
    /\ all_candles[1] = all_candles[2]
    /\ all_candles[limit + 1][1] > all_candles[1][1]

\* C22: every daily request asks for the "1d" timeframe from the open time
\* of the earliest candle of the merged series minus two days.
C22_DailyWindowTwoDaysBack ==
    \A d \in DayReqs :
        /\ series # <<>>
        /\ reqs[d].tf = "1d"
        /\ reqs[d].phase = "day"
        /\ reqs[d].since = series[1][1] - 2 * day_timeframe_ms
        /\ reqs[d].since + day_timeframe_ms < series[1][1]

\* C22 witness: the earliest candle opens at 3 and the daily request was
\* made at 3 minus two days; the connector answered it.
C22_Witness ==
    /\ pc = "done"
    /\ DayReqs = {Len(reqs)}
    /\ series[1][1] = 3
    /\ Len(series) = 2
    /\ reqs[Len(reqs)].since = 3 - 2 * day_timeframe_ms
    /\ reqs[Len(reqs)].ok
    /\ day # <<>>

\* the tickers build_markets does not skip: named, not DEX-named, with
\* base and quote
ValidTickers ==
    {i \in 1..Len(tickers) :
        /\ tickers[i].name # <<>>
        /\ ~is_dex_name(tickers[i].name)
        /\ tickers[i].base \notin {"", "None"}
        /\ tickers[i].target \notin {"", "None"}}

\* the volume a ticker counts with: an absent volume counts as 0
CountedVolume(i) ==
    IF tickers[i].volume = None THEN 0 ELSE tickers[i].volume

\* the first valid ticker of the name with the maximum volume of the name
BestTicker(name) ==
    LET mine == {i \in ValidTickers : tickers[i].name = name}
    IN Min({i \in mine :
              \A j \in mine : CountedVolume(j) <= CountedVolume(i)})

\* C23 (under SpecBuild): the list build_markets returns has one entry for
\* every exchange name that has a valid ticker and no other entry (none for
\* a DEX name, none for a ticker without name, base or quote), no two
\* entries of one name, and the entry of a name carries base, quote and
\* volume of the first ticker, in input order, with the maximum volume
\* among the valid tickers of that name.
C23_BuildMarketsDeduplicates ==
    main_pc = "built" =>
        /\ \A a \in 1..Len(markets), b \in 1..Len(markets) :
              a # b => markets[a].exchange_name # markets[b].exchange_name
        /\ {markets[a].exchange_name : a \in 1..Len(markets)}
              = {tickers[i].name : i \in ValidTickers}
        /\ \A a \in 1..Len(markets) :
              LET t == tickers[BestTicker(markets[a].exchange_name)]
              IN /\ markets[a].exchange_name \notin {<<>>, JSwap, Pancake}
                 /\ markets[a].base = t.base
                 /\ markets[a].quote = t.target
                 /\ markets[a].volume = CountedVolume(
                        BestTicker(markets[a].exchange_name))

\* C23 witness: three tickers of one exchange with volumes 1, 2, 2 and a
\* single entry, that of the second ticker.
C23_Witness ==
    /\ main_pc = "built"
    /\ Len(tickers) = 3
    /\ \A i \in 1..3 : tickers[i].name = OKX
    /\ tickers[1].volume = 1
    /\ tickers[2].volume = 2
    /\ tickers[3].volume = 2
    /\ tickers[2] # tickers[3]
    /\ Len(markets) = 1
    /\ markets[1].quote = tickers[2].target
    /\ markets[1].base = tickers[2].base

=============================================================================
